---- MODULE Spec2Model ----
(***************************************************************************)
(* zkvvm: the zkVyper version manager (src/src/zkvvm.py).                  *)
(*                                                                         *)
(* The model follows VersionManager: the cache directory (a map from file  *)
(* names to file contents), the vvm store of the companion compiler, the   *)
(* remote index, and each manager's position inside compile / install /    *)
(* uninstall.  Strings are sequences of one-character strings, so that     *)
(* split("-"), [1:], str(version) and Version(...) are computed the way    *)
(* the code computes them.                                                 *)
(***************************************************************************)
EXTENDS Integers, Sequences, FiniteSets, TLC

\* ------------------------------------------------------------------ strings

DigitSeq == <<"0", "1", "2", "3", "4", "5", "6", "7", "8", "9">>
Digits == {DigitSeq[i] : i \in DOMAIN DigitSeq}
LetterSeq ==
  <<"a", "b", "c", "d", "e", "f", "g", "h", "i", "j", "k", "l", "m",
    "n", "o", "p", "q", "r", "s", "t", "u", "v", "w", "x", "y", "z">>
Letters == {LetterSeq[i] : i \in DOMAIN LetterSeq}

DigitVal(c) == (CHOOSE i \in DOMAIN DigitSeq : DigitSeq[i] = c) - 1

\* s.find(c) + 1: the first position of character c in s, 0 when absent
IndexOf(s, c) ==
  IF \E i \in DOMAIN s : s[i] = c
  THEN CHOOSE i \in DOMAIN s : s[i] = c /\ \A j \in DOMAIN s : j < i => s[j] # c
  ELSE 0

\* s.split(c)
RECURSIVE Split(_, _)
Split(s, c) ==
  LET i == IndexOf(s, c)
  IN IF i = 0 THEN <<s>>
     ELSE <<SubSeq(s, 1, i - 1)>> \o Split(SubSeq(s, i + 1, Len(s)), c)

\* s.split("-")[-1]
LastDashSegment(s) ==
  LET parts == Split(s, "-") IN parts[Len(parts)]

\* s[1:]
DropFirst(s) == IF Len(s) = 0 THEN <<>> ELSE Tail(s)

\* sub in s
IsSubstr(sub, s) ==
  \E i \in 0..Len(s) :
    /\ i + Len(sub) <= Len(s)
    /\ SubSeq(s, i + 1, i + Len(sub)) = sub

\* ----------------------------------------------------------------- versions

\* what Version(s) gives for a string that is no semantic version: ValueError
Invalid ==
  [valid |-> FALSE, major |-> 0, minor |-> 0, patch |-> 0,
   prerelease |-> <<>>, build |-> <<>>]

IsNumeric(s) == Len(s) > 0 /\ \A i \in DOMAIN s : s[i] \in Digits

\* a numeric component without leading zero: (0|[1-9]\d*)
IsStrictNumeric(s) == IsNumeric(s) /\ (Len(s) > 1 => s[1] # "0")

RECURSIVE NatOf(_)
NatOf(s) ==
  IF Len(s) = 0 THEN 0
  ELSE 10 * NatOf(SubSeq(s, 1, Len(s) - 1)) + DigitVal(s[Len(s)])

RECURSIVE StrOfNat(_)
StrOfNat(n) ==
  IF n < 10 THEN <<DigitSeq[n + 1]>>
  ELSE StrOfNat(n \div 10) \o <<DigitSeq[(n % 10) + 1]>>

\* one dot-separated identifier of a pre-release or build part
IsIdentifier(s) ==
  /\ Len(s) > 0
  /\ \A i \in DOMAIN s : s[i] \in Digits \cup Letters \cup {"-"}

IsPrerelease(s) ==
  LET ids == Split(s, ".")
  IN \A i \in DOMAIN ids :
       /\ IsIdentifier(ids[i])
       /\ (IsNumeric(ids[i]) => IsStrictNumeric(ids[i]))

IsBuild(s) ==
  LET ids == Split(s, ".") IN \A i \in DOMAIN ids : IsIdentifier(ids[i])

\* Version(s): major.minor.patch[-prerelease][+build], or ValueError
ParseVersion(s) ==
  LET plus == IndexOf(s, "+")
      nobuild == IF plus = 0 THEN s ELSE SubSeq(s, 1, plus - 1)
      build == IF plus = 0 THEN <<>> ELSE SubSeq(s, plus + 1, Len(s))
      dash == IndexOf(nobuild, "-")
      core == IF dash = 0 THEN nobuild ELSE SubSeq(nobuild, 1, dash - 1)
      pre == IF dash = 0 THEN <<>> ELSE SubSeq(nobuild, dash + 1, Len(nobuild))
      nums == Split(core, ".")
  IN IF /\ Len(nums) = 3
        /\ \A i \in DOMAIN nums : IsStrictNumeric(nums[i])
        /\ (dash # 0 => IsPrerelease(pre))
        /\ (plus # 0 => IsBuild(build))
     THEN [valid |-> TRUE, major |-> NatOf(nums[1]), minor |-> NatOf(nums[2]),
           patch |-> NatOf(nums[3]), prerelease |-> pre, build |-> build]
     ELSE Invalid

\* str(version)
VersionStr(v) ==
  StrOfNat(v.major) \o <<".">> \o StrOfNat(v.minor) \o <<".">> \o StrOfNat(v.patch)
    \o (IF v.prerelease = <<>> THEN <<>> ELSE <<"-">> \o v.prerelease)
    \o (IF v.build = <<>> THEN <<>> ELSE <<"+">> \o v.build)

\* ----------------------------------------------- precedence and constraints

\* the order of characters inside an alphanumeric identifier (ASCII)
CharRank(c) ==
  IF c = "-" THEN 0
  ELSE IF c \in Digits THEN CHOOSE i \in DOMAIN DigitSeq : DigitSeq[i] = c
  ELSE Len(DigitSeq) + (CHOOSE i \in DOMAIN LetterSeq : LetterSeq[i] = c)

\* the first position where two sequences differ, 0 when one is a prefix of the other
FirstDiff(x, y) ==
  LET both == {i \in DOMAIN x : i \in DOMAIN y /\ x[i] # y[i]}
  IN IF both = {} THEN 0 ELSE CHOOSE i \in both : \A j \in both : i <= j

AlphaLess(x, y) ==
  LET i == FirstDiff(x, y)
  IN IF i = 0 THEN Len(x) < Len(y) ELSE CharRank(x[i]) < CharRank(y[i])

\* pre-release identifiers: numeric ones by value and below alphanumeric ones
IdentifierLess(x, y) ==
  IF IsNumeric(x) /\ IsNumeric(y) THEN NatOf(x) < NatOf(y)
  ELSE IF IsNumeric(x) THEN TRUE
  ELSE IF IsNumeric(y) THEN FALSE
  ELSE AlphaLess(x, y)

PrereleaseLess(p, q) ==
  IF p = <<>> THEN FALSE
  ELSE IF q = <<>> THEN TRUE
  ELSE LET a == Split(p, ".")
           b == Split(q, ".")
           i == FirstDiff(a, b)
       IN IF i = 0 THEN Len(a) < Len(b) ELSE IdentifierLess(a[i], b[i])

\* Version.__lt__: precedence; build metadata takes no part in it
Precedes(a, b) ==
  \/ a.major < b.major
  \/ a.major = b.major /\ a.minor < b.minor
  \/ a.major = b.major /\ a.minor = b.minor /\ a.patch < b.patch
  \/ /\ a.major = b.major /\ a.minor = b.minor /\ a.patch = b.patch
     /\ PrereleaseLess(a.prerelease, b.prerelease)

SameCore(a, b) == a.major = b.major /\ a.minor = b.minor /\ a.patch = b.patch

\* SimpleSpec clause [op, target] applied to a version
Match(c, v) ==
  IF c.op = ">=" THEN ~Precedes(v, c.target)
  ELSE /\ Precedes(v, c.target)
       /\ ~(v.prerelease # <<>> /\ c.target.prerelease = <<>> /\ SameCore(v, c.target))

\* BinaryVersion(string, location=...): a Version with a location (lines 62-65)
BinaryVersion(s, loc) == [ver |-> ParseVersion(s), location |-> loc]

\* no BinaryVersion (None)
NoBV == [ver |-> Invalid, location |-> [scheme |-> "none", path |-> <<>>]]

Versions(S) == {b.ver : b \in S}

\* spec.filter(versions)
Filter(c, S) == {b \in S : Match(c, b.ver)}

SelectMin(c, S) ==
  IF Filter(c, S) = {} THEN NoBV
  ELSE CHOOSE b \in Filter(c, S) : \A o \in Filter(c, S) : ~Precedes(o.ver, b.ver)

\* spec.select(versions): max of the versions the constraint matches, or None
Select(c, S) ==
  IF Filter(c, S) = {} THEN NoBV
  ELSE CHOOSE b \in Filter(c, S) : \A o \in Filter(c, S) : ~Precedes(b.ver, o.ver)

\* ------------------------------------------------- the versions of the model

ZKVYPER == <<"z", "k", "v", "y", "p", "e", "r">>
S_1_0_0 == <<"1", ".", "0", ".", "0">>
S_1_2_0 == <<"1", ".", "2", ".", "0">>
S_Beta == <<"2", ".", "0", ".", "0", "-", "b", "e", "t", "a", ".", "1">>
VersionStrings == {S_1_0_0, S_1_2_0, S_Beta}

\* what a binary that is some other version prints for --version
WrongOutput == <<"0", ".", "9", ".", "9">>

\* ---------------------------------------------------------- cache directory

\* the file name with a tag letter before the version
CacheNameTagged(v) == ZKVYPER \o <<"-", "v">> \o VersionStr(v)

\* line 134: "zkvyper-" + str(version)
CacheName(v) == ZKVYPER \o <<"-">> \o VersionStr(v)

FileNames == {CacheName(ParseVersion(s)) : s \in VersionStrings}

\* the directory log_file.parent when it lies inside the cache directory
LogName == <<"l", "o", "g">>

\* the names an entry of the cache directory can have
CacheEntries == FileNames \cup {LogName}

Absent == [data |-> "absent", exec |-> FALSE, runs |-> "none", out |-> <<>>]

\* an entry that is a directory
Directory == [data |-> "dir", exec |-> TRUE, runs |-> "none", out |-> <<>>]

\* the cache directory itself does not exist
NoDirectory == [n \in {} |-> Absent]

DirExists(fs) == DOMAIN fs # {}

Present(fs, n) == n \in DOMAIN fs /\ fs[n].data # "absent"

\* lines 209-211: an entry of the directory for which fp.is_file() holds
IsFile(fs, n) == Present(fs, n) /\ fs[n].data # "dir"

\* what reading a directory with these decoded names gives: the set, or the
\* FileNotFoundError of iterdir(), or the ValueError of Version(...)
Listing(fs, found) ==
  [ok |-> DirExists(fs) /\ \A b \in found : b.ver.valid,
   err |-> IF ~DirExists(fs) THEN "FileNotFoundError"
           ELSE IF \A b \in found : b.ver.valid THEN "none" ELSE "ValueError",
   vals |-> found]

\* urllib.parse.quote of one character; alphanumerics and _ . - ~ / stay
QuoteChar(c) ==
  IF c \in Digits \cup Letters \cup {"_", ".", "-", "~", "/"} THEN <<c>>
  ELSE IF c = "+" THEN <<"%", "2", "B">>
  ELSE <<"%", "?", "?">>

RECURSIVE Quote(_)
Quote(s) == IF Len(s) = 0 THEN <<>> ELSE QuoteChar(s[1]) \o Quote(Tail(s))

\* fp.as_uri(): the path is percent-quoted
AsUri(n) == [scheme |-> "file", path |-> Quote(n)]

\* urllib.parse.urlparse(location).path: the path as it stands, not unquoted
UrlPath(loc) == loc.path

\* local_versions decoding a file name the way remote_versions decodes an entry
LocalVersionsTagged(fs) ==
  Listing(fs, {BinaryVersion(DropFirst(LastDashSegment(n)), AsUri(n)) :
                 n \in {f \in DOMAIN fs : IsFile(fs, f)}})

\* lines 204-213
LocalVersions(fs) ==
  Listing(fs, {BinaryVersion(LastDashSegment(n), AsUri(n)) :
                 n \in {f \in DOMAIN fs : IsFile(fs, f)}})

\* -------------------------------------------------------------- remote index

RemoteName(tag) ==
  ZKVYPER \o <<"-", "l", "i", "n", "u", "x", "-", "a", "m", "d", "6", "4", "-">> \o tag

Https(path) == [scheme |-> "https", path |-> path]

FileEntry(tag) ==
  [type |-> "file", name |-> RemoteName(tag), download_url |-> Https(RemoteName(tag))]

DirEntry == [type |-> "dir", name |-> <<"o", "l", "d">>, download_url |-> Https(<<>>)]

\* what the index endpoint may answer: an older and a newer listing, and one
\* holding an entry whose name carries no tag letter
ListingOld == {FileEntry(<<"v">> \o S_1_0_0), DirEntry}
ListingNew == ListingOld \cup {FileEntry(<<"v">> \o S_1_2_0)}
ListingUntagged == ListingNew \cup {FileEntry(<<"1", ".", "4", ".", "2">>)}
Listings == {ListingOld, ListingNew, ListingUntagged}

\* lines 195-202
ParseListing(listing) ==
  LET found == {BinaryVersion(DropFirst(LastDashSegment(e.name)), e.download_url) :
                  e \in {f \in listing : f.type = "file"}}
  IN [ok |-> \A b \in found : b.ver.valid, vals |-> found]

\* ----------------------------------------------------------------- platform

AMD64 == {"amd64", "x86_64", "i386", "i586", "i686"}
ARM64 == {"aarch64_be", "aarch64", "armv8b", "armv8l"}

\* str.lower() on the machine names of the model
Lower(m) ==
  CASE m = "AMD64" -> "amd64"
    [] m = "ARM64" -> "arm64"
    [] OTHER -> m

\* lines 230-243
PlatformId(system, machine) ==
  IF system = "Linux" /\ Lower(machine) \in AMD64 THEN "linux-amd64"
  ELSE IF system = "Darwin" /\ Lower(machine) \in AMD64 THEN "macosx-amd64"
  ELSE IF system = "Darwin" /\ Lower(machine) \in AMD64 THEN "macosx-arm64"
  ELSE "PlatformError"

\* -------------------------------------------------------------------- state

VARIABLES
  files,           \* the cache directory: file name -> content
  vyperInstalled,  \* config["vyper_version"] in vvm.get_installed_vyper_versions()
  host,            \* platform.system(), platform.machine()
  config,          \* the Config the managers were built with
  mgr              \* per VersionManager: its memoized properties and its position

vars == <<files, vyperInstalled, host, config, mgr>>

\* how many times one manager may issue the index request
MaxFetches == 2

Hosts ==
  {[system |-> "Linux", machine |-> "x86_64"],
   [system |-> "Darwin", machine |-> "x86_64"],
   [system |-> "Darwin", machine |-> "aarch64"],
   [system |-> "Linux", machine |-> "aarch64"],
   [system |-> "Windows", machine |-> "AMD64"]}

\* DEFAULTS["zk_version"] (line 32) and two other constraints
DefaultSpec == [op |-> ">=", target |-> ParseVersion(<<"1", ".", "1", ".", "0">>)]
Constraints ==
  {DefaultSpec,
   [op |-> ">=", target |-> ParseVersion(S_1_0_0)],
   [op |-> "<", target |-> ParseVersion(S_1_0_0)]}

\* the index entries as BinaryVersions: what main() hands to install
RemoteBVs == ParseListing(ListingNew).vals

\* a BinaryVersion a caller of install builds for a pre-release
BetaBV == BinaryVersion(S_Beta, Https(RemoteName(<<"v">> \o S_Beta)))

\* the BinaryVersions local_versions can hold, and one for the pre-release file
LocalBVs == {[ver |-> ParseVersion(s), location |-> AsUri(CacheName(ParseVersion(s)))] :
               s \in VersionStrings}

InstallArgs == RemoteBVs \cup {BetaBV} \cup {b \in LocalBVs : b.ver = ParseVersion(S_1_0_0)}
UninstallArgs == LocalBVs \cup {b \in RemoteBVs : b.ver = ParseVersion(S_1_2_0)}

NoMemo == [set |-> FALSE, vals |-> {}]
NoLast ==
  [op |-> "none", arg |-> NoBV, ow |-> FALSE, transfers |-> 0, hadBefore |-> FALSE]

\* a manager just constructed, and what every call starts from
Fresh ==
  [pc |-> "idle", op |-> "none", arg |-> NoBV, ow |-> FALSE,
   status |-> "none", chosen |-> NoBV, asked |-> DefaultSpec, fd |-> "none",
   memo |-> NoMemo, platform |-> "unset", fetches |-> 0,
   result |-> "none", raisedAt |-> "none", transfers |-> 0, sent |-> FALSE,
   hadBefore |-> FALSE, listedBefore |-> FALSE,
   vyperBefore |-> FALSE, vyperFetched |-> FALSE,
   warned |-> FALSE, started |-> FALSE, unavailable |-> FALSE,
   seenLocal |-> {}, consulted |-> FALSE, seenRemote |-> {},
   last |-> NoLast]

\* a verified artifact of the version with string s, as an earlier run left it
Installed(s) == [data |-> "full", exec |-> TRUE, runs |-> "ok", out |-> s]

\* a cache directory holding the verified artifacts of the versions S
CacheWith(S) ==
  [n \in CacheEntries |->
     IF \E b \in S : n = CacheName(b.ver)
     THEN Installed(VersionStr((CHOOSE b \in S : n = CacheName(b.ver)).ver))
     ELSE Absent]

\* the cache directory as earlier runs (under any companion version) left it:
\* any of the versions of the remote index, installed
InitialCaches == {CacheWith(S) : S \in SUBSET RemoteBVs}

\* lines 33-34: the default log directory lies inside the default cache
\* directory on Linux (appdirs), and beside it on the other systems
LogUnderCache(system) == system = "Linux"

\* what the constructor can find: the cache directory (absent, or as earlier
\* runs left it), the directory of the log file, and the log file
Environments(system) ==
  {e \in [cache : InitialCaches \cup {NoDirectory}
                    \cup {[c EXCEPT ![LogName] = Directory] : c \in InitialCaches},
          logDir : BOOLEAN, logFile : BOOLEAN] :
     /\ e.logFile => e.logDir
     /\ (DirExists(e.cache) /\ e.cache[LogName] = Directory)
          <=> (LogUnderCache(system) /\ e.logDir)}

\* lines 75-83: when the log file is absent its directory is made, with the
\* missing parents, and mkdir raises FileExistsError when it is there already;
\* nothing makes the cache directory itself
Construct(system, e) ==
  IF e.logFile THEN [ok |-> TRUE, files |-> e.cache]
  ELSE IF e.logDir THEN [ok |-> FALSE, files |-> e.cache]
  ELSE IF LogUnderCache(system)
  THEN [ok |-> TRUE,
        files |-> [(IF DirExists(e.cache) THEN e.cache ELSE CacheWith({}))
                     EXCEPT ![LogName] = Directory]]
  ELSE [ok |-> TRUE, files |-> e.cache]

\* the constructor raised: there is no manager
Failed == [Fresh EXCEPT !.pc = "failed", !.result = "FileExistsError", !.raisedAt = "init"]

Init ==
  /\ vyperInstalled \in BOOLEAN
  /\ host \in Hosts
  /\ config \in [zk_version : Constraints]
  /\ \E e \in Environments(host.system) :
       /\ files = Construct(host.system, e).files
       /\ mgr = [p \in {"m1"} |-> IF Construct(host.system, e).ok THEN Fresh ELSE Failed]

\* the fields a call resets; the memoized properties and the history stay
Begin(m, op) ==
  [Fresh EXCEPT !.op = op, !.memo = m.memo, !.platform = m.platform,
                !.fetches = m.fetches, !.last = m.last,
                !.vyperBefore = vyperInstalled]

\* the call ends: it returned (result "ok") or raised
Finish(m, result, at) == [m EXCEPT !.pc = "done", !.result = result, !.raisedAt = at]

Set(p, m) == mgr' = [mgr EXCEPT ![p] = m]

\* manager p goes on as m and has removed the directory entry n: a file another
\* manager holds open under that name is no longer reachable by the name
SetUnlinking(p, m, n) ==
  mgr' = [q \in DOMAIN mgr |->
            IF q = p THEN m
            ELSE IF mgr[q].fd = "open" /\ CacheName(mgr[q].arg.ver) = n
            THEN [mgr[q] EXCEPT !.fd = "orphan"]
            ELSE mgr[q]]

\* ------------------------------------------------- the companion compiler

\* the companion compiler taken as present without a look
EnsureVyperSkip(installed) ==
  {[installed |-> installed, raised |-> FALSE, fetched |-> FALSE]}

\* lines 86-90 and 120-124: vvm.install_vyper when the version is not installed;
\* the installation succeeds or raises
EnsureVyper(installed) ==
  IF installed THEN {[installed |-> TRUE, raised |-> FALSE, fetched |-> FALSE]}
  ELSE {[installed |-> TRUE, raised |-> FALSE, fetched |-> TRUE],
        [installed |-> FALSE, raised |-> TRUE, fetched |-> TRUE]}

\* --------------------------------------------------------- remote_versions

\* remote_versions as a plain property: the stored value is never used
RemoteVersionsNoMemo(m) ==
  LET pid == PlatformId(host.system, host.machine)
      sent == [raised |-> "none", vals |-> {}, memo |-> m.memo,
               platform |-> pid, fetched |-> TRUE]
  IN IF pid = "PlatformError"
     THEN {[sent EXCEPT !.raised = "PlatformError", !.platform = m.platform,
                        !.fetched = FALSE]}
     ELSE {[sent EXCEPT !.raised = "ConnectionError"],
           [sent EXCEPT !.raised = "HTTPError"]}
          \cup {IF ParseListing(l).ok
                THEN [sent EXCEPT !.vals = ParseListing(l).vals,
                                  !.memo = [set |-> TRUE, vals |-> ParseListing(l).vals]]
                ELSE [sent EXCEPT !.raised = "ValueError"] : l \in Listings}

\* lines 187-202, a functools.cached_property: the value is stored only when the
\* body returns; the index request fails in transit, answers non-2xx
\* (raise_for_status) or answers one of the listings
RemoteVersionsOutcomes(m) ==
  LET pid == IF m.platform # "unset" THEN m.platform
             ELSE PlatformId(host.system, host.machine)
      base == [raised |-> "none", vals |-> {}, memo |-> m.memo,
               platform |-> m.platform, fetched |-> FALSE]
      sent == [base EXCEPT !.platform = pid, !.fetched = TRUE]
  IN IF m.memo.set THEN {[base EXCEPT !.vals = m.memo.vals]}
     ELSE IF pid = "PlatformError" THEN {[base EXCEPT !.raised = "PlatformError"]}
     ELSE {[sent EXCEPT !.raised = "ConnectionError"],
           [sent EXCEPT !.raised = "HTTPError"]}
          \cup {IF ParseListing(l).ok
                THEN [sent EXCEPT !.vals = ParseListing(l).vals,
                                  !.memo = [set |-> TRUE, vals |-> ParseListing(l).vals]]
                ELSE [sent EXCEPT !.raised = "ValueError"] : l \in Listings}

AfterRemote(m, o) ==
  [m EXCEPT !.memo = o.memo, !.platform = o.platform,
            !.fetches = IF o.fetched THEN @ + 1 ELSE @,
            !.sent = @ \/ o.fetched]

MayFetch(m) == m.memo.set \/ m.fetches < MaxFetches

\* ------------------------------------------------------------------ install

\* install returns: to its caller compile (line 102), or to the caller of install
InstallReturn(m) ==
  IF m.op = "compile" THEN [m EXCEPT !.pc = "c_reselect"] ELSE Finish(m, "ok", "none")

\* install without the early return of lines 126-127
InstallEntryAlways(m, fs, e) ==
  IF e.raised
  THEN Finish([m EXCEPT !.vyperFetched = @ \/ e.fetched], "VyperInstallError", "vyper")
  ELSE [m EXCEPT !.vyperFetched = @ \/ e.fetched, !.pc = "i_get"]

\* lines 119-127: the companion compiler, then the check against local_versions
InstallEntry(m, fs, e) ==
  LET lv == LocalVersions(fs)
      m1 == [m EXCEPT !.vyperFetched = @ \/ e.fetched,
                      !.seenLocal = IF lv.ok THEN Versions(lv.vals) ELSE @]
  IN IF e.raised THEN Finish(m1, "VyperInstallError", "vyper")
     ELSE IF ~lv.ok THEN Finish(m1, lv.err, "check")
     ELSE IF m1.arg.ver \in Versions(lv.vals) /\ ~m1.ow THEN InstallReturn(m1)
     ELSE [m1 EXCEPT !.pc = "i_get"]

\* version in self.local_versions
Listed(fs, v) == LocalVersions(fs).ok /\ v \in Versions(LocalVersions(fs).vals)

\* install(version, overwrite) is called
Install(p, bv, ow) ==
  /\ mgr[p].pc = "idle"
  /\ \E e \in EnsureVyper(vyperInstalled) :
       /\ vyperInstalled' = e.installed
       /\ Set(p, InstallEntry([Begin(mgr[p], "install") EXCEPT
                                 !.arg = bv, !.ow = ow,
                                 !.hadBefore = Present(files, CacheName(bv.ver)),
                                 !.listedBefore = Listed(files, bv.ver)],
                              files, e))
  /\ UNCHANGED <<files, host, config>>

\* the install command raising when the constraint selects nothing
MainInstallOutcomeRaising(m, sel) ==
  IF sel = NoBV THEN Finish(m, "Exception", "select") ELSE [m EXCEPT !.arg = sel]

\* lines 324-328: install is called for the selected version and, when there is
\* none, "Version not available" is printed
MainInstallOutcome(m, sel) ==
  IF sel = NoBV THEN Finish([m EXCEPT !.unavailable = TRUE], "ok", "none")
  ELSE [m EXCEPT !.arg = sel]

\* lines 323-328, the install command: the constraint given on the command line
\* selects among remote_versions; install is called for the selected version
MainInstall(p, c, ow) ==
  /\ mgr[p].pc = "idle"
  /\ MayFetch(mgr[p])
  /\ \E o \in RemoteVersionsOutcomes(mgr[p]), e \in EnsureVyper(vyperInstalled) :
       LET m == [AfterRemote(Begin(mgr[p], "main_install"), o) EXCEPT
                   !.ow = ow, !.consulted = TRUE, !.seenRemote = Versions(o.vals),
                   !.asked = c]
           sel == Select(c, o.vals)
           r == MainInstallOutcome(m, sel)
       IN IF o.raised # "none"
          THEN Set(p, Finish(m, o.raised, "remote")) /\ UNCHANGED vyperInstalled
          ELSE IF r.pc = "done"
          THEN Set(p, r) /\ UNCHANGED vyperInstalled
          ELSE /\ vyperInstalled' = e.installed
               /\ Set(p, InstallEntry([r EXCEPT
                                         !.hadBefore = Present(files, CacheName(sel.ver)),
                                         !.listedBefore = Listed(files, sel.ver)],
                                      files, e))
  /\ UNCHANGED <<files, host, config>>

\* what fp.open("wb") leaves at the path: an empty file, the mode bits kept
Truncated(f) == [Absent EXCEPT !.data = "partial", !.exec = f.exec]

\* lines 132-135: the GET of version.location, then the file is opened for writing.
\* Without streaming (show_progress false) the body is read inside get, so a
\* transfer that breaks partway raises here, before the file is opened.
InstallGet(p) ==
  LET m == mgr[p]
      n == CacheName(m.arg.ver)
      m1 == [m EXCEPT !.transfers = @ + 1]
  IN /\ m.pc = "i_get"
     /\ \/ /\ m.arg.location.scheme # "https"
           /\ Set(p, Finish(m, "InvalidSchema", "get"))
           /\ UNCHANGED files
        \/ /\ m.arg.location.scheme = "https"
           /\ \E err \in {"ConnectionError", "ChunkedEncodingError"} :
                Set(p, Finish(m1, err, "get"))
           /\ UNCHANGED files
        \/ /\ m.arg.location.scheme = "https"
           /\ \E st \in {"2xx", "non2xx"} :
                Set(p, [m1 EXCEPT !.pc = "i_write", !.status = st, !.fd = "open"])
           /\ files' = [files EXCEPT ![n] = Truncated(@)]
     /\ UNCHANGED <<vyperInstalled, host, config>>

\* what the body of the response is, as a program: what running it with --version
\* does.  A non-2xx answer carries an error page, which cannot be executed.
Bodies(st, bv) ==
  IF st = "2xx"
  THEN {[runs |-> "ok", out |-> VersionStr(bv.ver)],
        [runs |-> "ok", out |-> WrongOutput],
        [runs |-> "nonzero", out |-> <<>>],
        [runs |-> "oserror", out |-> <<>>]}
  ELSE {[runs |-> "oserror", out |-> <<>>]}

\* a file whose bytes are a mix of two different bodies
Garbled == [data |-> "full", exec |-> TRUE, runs |-> "oserror", out |-> <<>>]

\* f.write from offset 0 into what the file holds: the body written, or a mix
\* when another writer has put a different body there since the file was opened
Written(f, b) ==
  LET mine == [data |-> "full", exec |-> TRUE, runs |-> b.runs, out |-> b.out]
  IN IF f.data = "full" /\ (f.runs # b.runs \/ f.out # b.out)
     THEN {mine, Garbled}
     ELSE {mine}

\* lines 136-148, 156-157: the body is written, the file closed and made
\* executable; or an exception is raised while the body is read or written.
\* When the name was unlinked meanwhile the bytes go to the unlinked file, and
\* chmod acts on whatever the name now is, or raises FileNotFoundError.
InstallWrite(p) ==
  LET m == mgr[p]
      n == CacheName(m.arg.ver)
      m1 == [m EXCEPT !.fd = "none"]
  IN /\ m.pc = "i_write"
     /\ \/ /\ m.fd = "open"
           /\ \E b \in Bodies(m.status, m.arg) :
                \E w \in Written(files[n], b) : files' = [files EXCEPT ![n] = w]
           /\ Set(p, [m1 EXCEPT !.pc = "i_verify"])
        \/ /\ m.fd = "orphan"
           /\ IF Present(files, n)
              THEN /\ files' = [files EXCEPT ![n].exec = TRUE]
                   /\ Set(p, [m1 EXCEPT !.pc = "i_verify"])
              ELSE /\ UNCHANGED files
                   /\ Set(p, Finish(m1, "FileNotFoundError", "chmod"))
        \/ /\ Set(p, [m1 EXCEPT !.pc = "i_cleanup", !.raisedAt = "write"])
           /\ UNCHANGED files
     /\ UNCHANGED <<vyperInstalled, host, config>>

\* fp.unlink()
Unlink(fs, n) == [fs EXCEPT ![n] = Absent]

\* the handler of lines 149-154 without its unlink
CleanupFilesKept(fs, n) == fs

\* lines 149-154: f.close(), fp.unlink(), raise
CleanupFiles(fs, n) == Unlink(fs, n)

InstallCleanup(p) ==
  LET m == mgr[p]
      n == CacheName(m.arg.ver)
  IN /\ m.pc = "i_cleanup"
     /\ IF Present(files, n)
        THEN /\ files' = CleanupFiles(files, n)
             /\ SetUnlinking(p, Finish(m, "ChunkedEncodingError", "write"), n)
        ELSE /\ UNCHANGED files
             /\ Set(p, Finish(m, "FileNotFoundError", "cleanup"))
     /\ UNCHANGED <<vyperInstalled, host, config>>

\* lines 159-171: what subprocess.run([fp, "--version"]) and the two tests give:
\* "raise" (run itself raises OSError), "reject" (unlink, then raise) or "accept"
Verdict(f, bv) ==
  IF f.data = "absent" \/ ~f.exec \/ f.data = "partial" \/ f.runs = "oserror" THEN "raise"
  ELSE IF f.runs = "nonzero" THEN "reject"
  ELSE IF ~IsSubstr(VersionStr(bv.ver), f.out) THEN "reject"
  ELSE "accept"

\* another manager holds the file of that name open for writing
HeldOpen(p, n) ==
  \E q \in DOMAIN mgr \ {p} : mgr[q].fd = "open" /\ CacheName(mgr[q].arg.ver) = n

\* a file open for writing may refuse to be executed (ETXTBSY, an OSError)
InstallVerify(p) ==
  LET m == mgr[p]
      n == CacheName(m.arg.ver)
  IN /\ m.pc = "i_verify"
     /\ \E v \in {Verdict(files[n], m.arg)} \cup (IF HeldOpen(p, n) THEN {"raise"} ELSE {}) :
          Set(p, IF v = "raise" THEN Finish(m, "OSError", "verify")
                 ELSE IF v = "reject" THEN [m EXCEPT !.pc = "i_reject"]
                 ELSE InstallReturn(m))
     /\ UNCHANGED <<files, vyperInstalled, host, config>>

\* lines 164-165 and 170-171: fp.unlink(), raise Exception()
InstallReject(p) ==
  LET m == mgr[p]
      n == CacheName(m.arg.ver)
  IN /\ m.pc = "i_reject"
     /\ IF Present(files, n)
        THEN /\ files' = Unlink(files, n)
             /\ SetUnlinking(p, Finish(m, "Exception", "verify"), n)
        ELSE /\ UNCHANGED files
             /\ Set(p, Finish(m, "FileNotFoundError", "verify"))
     /\ UNCHANGED <<vyperInstalled, host, config>>

\* ---------------------------------------------------------------- uninstall

\* uninstall without the except clause of line 178
UninstallOutcomeRaising(fs, path) ==
  IF path \in DOMAIN fs /\ Present(fs, path)
  THEN [files |-> Unlink(fs, path), warned |-> FALSE, result |-> "ok"]
  ELSE [files |-> fs, warned |-> FALSE, result |-> "FileNotFoundError"]

\* lines 175-185: unlink the path of version.location; FileNotFoundError is
\* caught and logged as a warning
UninstallOutcome(fs, path) ==
  IF path \in DOMAIN fs /\ Present(fs, path)
  THEN [files |-> Unlink(fs, path), warned |-> FALSE, result |-> "ok"]
  ELSE [files |-> fs, warned |-> TRUE, result |-> "ok"]

Uninstall(p, bv) ==
  LET o == UninstallOutcome(files, UrlPath(bv.location))
  IN /\ mgr[p].pc = "idle"
     /\ files' = o.files
     /\ SetUnlinking(p, Finish([Begin(mgr[p], "uninstall") EXCEPT
                         !.arg = bv, !.warned = o.warned,
                         !.hadBefore = Present(files, CacheName(bv.ver)),
                         !.listedBefore = Listed(files, bv.ver)],
                             o.result, IF o.result = "ok" THEN "none" ELSE "unlink"),
                      IF o.files # files THEN UrlPath(bv.location) ELSE <<>>)
     /\ UNCHANGED <<vyperInstalled, host, config>>

\* ------------------------------------------------------------ ls, ls-remote

\* lines 316-320: the local versions are read and printed
Ls(p) ==
  /\ mgr[p].pc = "idle"
  /\ Set(p, LET lv == LocalVersions(files)
                m == Begin(mgr[p], "ls")
            IN IF lv.ok
               THEN Finish([m EXCEPT !.seenLocal = Versions(lv.vals)], "ok", "none")
               ELSE Finish(m, lv.err, "list"))
  /\ UNCHANGED <<files, vyperInstalled, host, config>>

\* lines 321-322: the remote versions are read and printed
LsRemote(p) ==
  /\ mgr[p].pc = "idle"
  /\ MayFetch(mgr[p])
  /\ \E o \in RemoteVersionsOutcomes(mgr[p]) :
       Set(p, LET m == [AfterRemote(Begin(mgr[p], "ls_remote"), o) EXCEPT
                          !.consulted = TRUE, !.seenRemote = Versions(o.vals)]
              IN IF o.raised = "none" THEN Finish(m, "ok", "none")
                 ELSE Finish(m, o.raised, "remote"))
  /\ UNCHANGED <<files, vyperInstalled, host, config>>

\* ------------------------------------------------------------------ compile

\* lines 85-92: the companion compiler, then the selection among local_versions
Compile(p) ==
  /\ mgr[p].pc = "idle"
  /\ MayFetch(mgr[p])
  /\ \E e \in EnsureVyper(vyperInstalled) :
       /\ vyperInstalled' = e.installed
       /\ Set(p, LET m == [Begin(mgr[p], "compile") EXCEPT !.vyperFetched = e.fetched]
                     lv == LocalVersions(files)
                     sel == Select(config.zk_version, lv.vals)
                 IN IF e.raised THEN Finish(m, "VyperInstallError", "vyper")
                    ELSE IF ~lv.ok THEN Finish(m, lv.err, "select")
                    ELSE IF sel # NoBV
                    THEN [m EXCEPT !.pc = "c_run", !.chosen = sel,
                                   !.seenLocal = Versions(lv.vals)]
                    ELSE [m EXCEPT !.pc = "c_remote", !.seenLocal = Versions(lv.vals)])
  /\ UNCHANGED <<files, host, config>>

\* lines 93-101 and, inside install, 119-127: the selection among remote_versions
\* and the call of install for it
CompileSelectRemote(p) ==
  LET m == mgr[p]
  IN /\ m.pc = "c_remote"
     /\ \E o \in RemoteVersionsOutcomes(m), e \in EnsureVyper(vyperInstalled) :
          LET m1 == [AfterRemote(m, o) EXCEPT
                       !.consulted = TRUE, !.seenRemote = Versions(o.vals)]
              sel == Select(config.zk_version, o.vals)
          IN /\ vyperInstalled' = e.installed
             /\ Set(p, IF o.raised # "none" THEN Finish(m1, o.raised, "remote")
                       ELSE IF sel = NoBV THEN Finish(m1, "Exception", "select")
                       ELSE InstallEntry([m1 EXCEPT
                                            !.arg = sel, !.ow = FALSE,
                                            !.hadBefore = Present(files, CacheName(sel.ver)),
                                            !.listedBefore = Listed(files, sel.ver)],
                                         files, e))
     /\ UNCHANGED <<files, host, config>>

\* lines 102-103: the selection among local_versions after install; None has
\* no location
CompileReselect(p) ==
  LET m == mgr[p]
      lv == LocalVersions(files)
      sel == Select(config.zk_version, lv.vals)
  IN /\ m.pc = "c_reselect"
     /\ Set(p, IF ~lv.ok THEN Finish(m, lv.err, "select")
               ELSE IF sel = NoBV THEN Finish(m, "AttributeError", "select")
               ELSE [m EXCEPT !.pc = "c_run", !.chosen = sel])
     /\ UNCHANGED <<files, vyperInstalled, host, config>>

\* lines 103-111: the path of the chosen location, the companion's executable,
\* then the compiler subprocess and the parse of its output
CompileRun(p) ==
  LET m == mgr[p]
      path == UrlPath(m.chosen.location)
  IN /\ m.pc = "c_run"
     /\ \/ /\ ~vyperInstalled
           /\ Set(p, Finish(m, "VyperNotInstalled", "run"))
        \/ /\ vyperInstalled
           /\ ~(path \in DOMAIN files /\ Present(files, path))
           /\ Set(p, Finish(m, "FileNotFoundError", "run"))
        \/ /\ vyperInstalled
           /\ path \in DOMAIN files /\ Present(files, path)
           /\ Verdict(files[path], m.chosen) = "raise"
           /\ Set(p, Finish(m, "OSError", "run"))
        \/ /\ vyperInstalled
           /\ path \in DOMAIN files /\ Present(files, path)
           /\ Verdict(files[path], m.chosen) # "raise"
           /\ \E r \in {"ok", "JSONDecodeError"} :
                Set(p, Finish([m EXCEPT !.started = TRUE], r,
                              IF r = "ok" THEN "none" ELSE "parse"))
     /\ UNCHANGED <<files, vyperInstalled, host, config>>

\* ---------------------------------------------------------------- the caller

\* what the next call can still tell about the call that just ended
Summary(m) ==
  IF m.op \in {"install", "uninstall"} /\ m.result = "ok"
  THEN [op |-> m.op, arg |-> m.arg, ow |-> m.ow, transfers |-> m.transfers,
        hadBefore |-> m.hadBefore]
  ELSE NoLast

\* the caller has the result of the call and is ready for the next one
Return(p) ==
  /\ mgr[p].pc = "done"
  /\ Set(p, [Fresh EXCEPT !.memo = mgr[p].memo, !.platform = mgr[p].platform,
                          !.fetches = mgr[p].fetches, !.last = Summary(mgr[p])])
  /\ UNCHANGED <<files, vyperInstalled, host, config>>

Next ==
  \/ \E p \in DOMAIN mgr, bv \in InstallArgs, ow \in BOOLEAN : Install(p, bv, ow)
  \/ \E p \in DOMAIN mgr, c \in Constraints, ow \in BOOLEAN : MainInstall(p, c, ow)
  \/ \E p \in DOMAIN mgr : InstallGet(p)
  \/ \E p \in DOMAIN mgr : InstallWrite(p)
  \/ \E p \in DOMAIN mgr : InstallCleanup(p)
  \/ \E p \in DOMAIN mgr : InstallVerify(p)
  \/ \E p \in DOMAIN mgr : InstallReject(p)
  \/ \E p \in DOMAIN mgr, bv \in UninstallArgs : Uninstall(p, bv)
  \/ \E p \in DOMAIN mgr : Ls(p)
  \/ \E p \in DOMAIN mgr : LsRemote(p)
  \/ \E p \in DOMAIN mgr : Compile(p)
  \/ \E p \in DOMAIN mgr : CompileSelectRemote(p)
  \/ \E p \in DOMAIN mgr : CompileReselect(p)
  \/ \E p \in DOMAIN mgr : CompileRun(p)
  \/ \E p \in DOMAIN mgr : Return(p)

Spec == Init /\ [][Next]_vars

\* ------------------------------------------------------ interrupted processes

\* the process is killed in the middle of a call: no handler runs, the files stay
\* as they are, and the next process builds a manager of its own
Kill(p) ==
  /\ mgr[p].pc \notin {"idle", "done", "failed"}
  /\ Set(p, Fresh)
  /\ UNCHANGED <<files, vyperInstalled, host, config>>

NextKill ==
  \/ Next
  \/ \E p \in DOMAIN mgr : Kill(p)

\* one host and the default constraint
InitKill ==
  /\ Init
  /\ host = [system |-> "Linux", machine |-> "x86_64"]
  /\ config = [zk_version |-> DefaultSpec]

SpecKill == InitKill /\ [][NextKill]_vars

\* ---------------------------------------------------- two processes at once

\* two processes, each with its own manager, on one cache directory
Processes == {"m1", "m2"}

\* the versions the two processes install
ConcArgs == {b \in RemoteBVs : b.ver = ParseVersion(S_1_2_0)}

InitConc ==
  /\ vyperInstalled = TRUE
  /\ host = [system |-> "Linux", machine |-> "x86_64"]
  /\ config = [zk_version |-> DefaultSpec]
  /\ files \in {[CacheWith(S) EXCEPT ![LogName] = Directory] : S \in SUBSET ConcArgs}
  /\ mgr = [p \in Processes |-> Fresh]

NextConc ==
  \/ \E p \in DOMAIN mgr, bv \in ConcArgs, ow \in BOOLEAN : Install(p, bv, ow)
  \/ \E p \in DOMAIN mgr : InstallGet(p)
  \/ \E p \in DOMAIN mgr : InstallWrite(p)
  \/ \E p \in DOMAIN mgr : InstallCleanup(p)
  \/ \E p \in DOMAIN mgr : InstallVerify(p)
  \/ \E p \in DOMAIN mgr : InstallReject(p)
  \/ \E p \in DOMAIN mgr : Return(p)

SpecConc == InitConc /\ [][NextConc]_vars

\* ------------------------------------------ directories with foreign entries

S_1_4_2 == <<"1", ".", "4", ".", "2">>
PREFIX == <<"p", "r", "e", "f", "i", "x">>

\* a name whose last dash segment carries a tag letter, and one without
PrefixTagged == PREFIX \o <<"-", "v">> \o S_1_4_2
PrefixPlain == PREFIX \o <<"-">> \o S_1_4_2

DirNames == {PrefixTagged, PrefixPlain, CacheName(ParseVersion(S_1_0_0)), LogName}

\* a cache directory whose entries are regular files, directories or absent;
\* what the entries hold plays no part in the listing
InitDir ==
  /\ vyperInstalled = TRUE
  /\ host = [system |-> "Linux", machine |-> "x86_64"]
  /\ config = [zk_version |-> DefaultSpec]
  /\ files \in [DirNames -> {Absent, Directory, Installed(S_1_4_2)}]
  /\ mgr = [p \in {"m1"} |-> Fresh]

NextDir ==
  \/ \E p \in DOMAIN mgr : Ls(p)
  \/ \E p \in DOMAIN mgr : Return(p)

SpecDir == InitDir /\ [][NextDir]_vars

\* ------------------------------------------------------------------- claims

\* v is the greatest of the versions of S that constraint c matches
IsMaxOf(v, S, c) ==
  /\ v \in S
  /\ Match(c, v)
  /\ \A w \in S : Match(c, w) => ~Precedes(v, w)

SomeMatch(S, c) == \E w \in S : Match(c, w)

\* a call of install, made by the caller or by compile, has ended
InstallEnded(m) == m.pc = "done" /\ m.arg # NoBV /\ m.op \in {"install", "compile"}

\* C1: the version compile uses is the greatest local version the constraint
\* matches when there is one, and then the remote index is not consulted;
\* otherwise it is the greatest matching remote version; when neither set holds
\* a match nothing is selected.
C1_Resolve ==
  \A p \in DOMAIN mgr :
    LET m == mgr[p]
        c == config.zk_version
    IN /\ (m.pc = "c_run" /\ SomeMatch(m.seenLocal, c)) =>
            /\ IsMaxOf(m.chosen.ver, m.seenLocal, c)
            /\ m.chosen.location.scheme = "file"
            /\ ~m.consulted /\ ~m.sent /\ m.transfers = 0
       /\ (m.pc = "c_run" /\ ~SomeMatch(m.seenLocal, c)) =>
            /\ m.consulted
            /\ IsMaxOf(m.chosen.ver, m.seenRemote, c)
       /\ (m.op = "compile" /\ m.consulted /\ m.raisedAt # "remote") =>
            (~SomeMatch(m.seenRemote, c) <=>
               /\ m.pc = "done" /\ m.result = "Exception" /\ m.raisedAt = "select"
               /\ m.chosen = NoBV /\ m.transfers = 0)

\* C1 witness: compile uses a local version although the remote index, known
\* from an earlier query, holds a greater version that matches
C1_Witness ==
  \E p \in DOMAIN mgr :
    /\ mgr[p].pc = "c_run"
    /\ mgr[p].memo.set
    /\ \E r \in mgr[p].memo.vals :
         Match(config.zk_version, r.ver) /\ Precedes(mgr[p].chosen.ver, r.ver)

\* the transfer of the artifact broke partway during a call of install
TransferFailed(m) == InstallEnded(m) /\ m.result = "ChunkedEncodingError"

\* C2 as stated: after an install whose transfer failed partway the version is
\* not listed, no file of it remains, and the caller got the error.
C2_AsStated ==
  \A p \in DOMAIN mgr :
    TransferFailed(mgr[p]) =>
      /\ ~Present(files, CacheName(mgr[p].arg.ver))
      /\ ~Listed(files, mgr[p].arg.ver)
      /\ mgr[p].result # "ok"

\* C2 amended: the caller gets the error and no partly written file remains.
\* Raised while the opened file is written, the file is deleted and the version
\* is not listed; raised by the GET before the file is opened, the file of the
\* version is as it was before the call.
C2_NoPartialFile ==
  \A p \in DOMAIN mgr :
    LET m == mgr[p]
        n == CacheName(m.arg.ver)
    IN TransferFailed(m) =>
         /\ m.result # "ok"
         /\ files[n].data # "partial"
         /\ m.raisedAt \in {"get", "write"}
         /\ (m.raisedAt = "write" => ~Present(files, n) /\ ~Listed(files, m.arg.ver))
         /\ (m.raisedAt = "get" => (Present(files, n) <=> m.hadBefore))

\* C2 witness: the transfer broke while the file was written, over a version
\* that was installed before the call
C2_Witness ==
  \E p \in DOMAIN mgr :
    TransferFailed(mgr[p]) /\ mgr[p].raisedAt = "write" /\ mgr[p].hadBefore

\* C3: when the verification of the downloaded artifact fails, whichever way,
\* no file of the version remains when install raises.
C3_AsStated ==
  \A p \in DOMAIN mgr :
    (InstallEnded(mgr[p]) /\ mgr[p].raisedAt = "verify") =>
      ~Present(files, CacheName(mgr[p].arg.ver))

\* C4: a version install reported installed is listed by local_versions, and
\* is no longer listed after the uninstall of its entry.
C4_AsStated ==
  \A p \in DOMAIN mgr :
    LET m == mgr[p]
    IN /\ (m.pc = "done" /\ m.op = "install" /\ m.result = "ok") =>
            Listed(files, m.arg.ver)
       /\ (m.pc = "done" /\ m.op = "uninstall" /\ m.last.op = "install"
             /\ m.last.arg.ver = m.arg.ver /\ m.arg.location.scheme = "file") =>
            (LocalVersions(files).ok /\ ~Listed(files, m.arg.ver))

\* the files of the cache directory that are the artifact of version v
ArtifactsOf(v) ==
  {n \in DOMAIN files :
     Present(files, n) /\ (n = CacheName(v) \/ ParseVersion(LastDashSegment(n)) = v)}

\* this call is install(v, overwrite=false) for a version of the remote index and
\* follows an install(v, overwrite=false) that started without v in the cache
SecondInstall(m) ==
  /\ m.pc = "done" /\ m.op = "install" /\ ~m.ow
  /\ m.arg \in RemoteBVs
  /\ m.last.op = "install" /\ m.last.arg = m.arg /\ ~m.last.ow /\ ~m.last.hadBefore

\* C5: of two calls install(v, overwrite=false) in sequence, from a cache
\* without v, the first transfers the artifact once and the second transfers
\* nothing; the cache then holds exactly one artifact of v.
C5_Idempotent ==
  \A p \in DOMAIN mgr :
    SecondInstall(mgr[p]) =>
      /\ mgr[p].last.transfers = 1
      /\ mgr[p].transfers = 0
      /\ mgr[p].result = "ok"
      /\ Cardinality(ArtifactsOf(mgr[p].arg.ver)) = 1
      /\ files[CacheName(mgr[p].arg.ver)].data = "full"

C5_Witness == \E p \in DOMAIN mgr : SecondInstall(mgr[p])

\* the step is a call install(v, overwrite=false) with v listed locally
NoOpInstallCall(p) ==
  /\ mgr[p].pc = "idle"
  /\ mgr'[p].op = "install" /\ ~mgr'[p].ow /\ mgr'[p].listedBefore

\* C6 as stated: install of a version that is listed, without overwrite,
\* returns at once: no transfer, no installation of any kind, cache unchanged.
C6_AsStated ==
  [][\A p \in DOMAIN mgr :
       NoOpInstallCall(p) =>
         /\ mgr'[p].pc = "done" /\ mgr'[p].result = "ok"
         /\ mgr'[p].transfers = 0
         /\ files' = files
         /\ vyperInstalled' = vyperInstalled /\ ~mgr'[p].vyperFetched]_vars

\* C6 amended: such a call transfers no artifact and leaves the cache directory
\* unchanged, but it installs the companion compiler first when that is absent,
\* and raises when that installation fails.
C6_NoArtifactTransfer ==
  [][\A p \in DOMAIN mgr :
       NoOpInstallCall(p) =>
         /\ mgr'[p].pc = "done"
         /\ mgr'[p].result \in {"ok", "VyperInstallError"}
         /\ (mgr'[p].result = "ok" <=> vyperInstalled')
         /\ mgr'[p].transfers = 0
         /\ files' = files
         /\ (mgr'[p].vyperFetched <=> ~vyperInstalled)]_vars

\* C6 witness: the call returned without a transfer for a version given by its
\* local location, after it installed the companion compiler
C6_Witness ==
  \E p \in DOMAIN mgr :
    /\ mgr[p].pc = "done" /\ mgr[p].op = "install" /\ ~mgr[p].ow
    /\ mgr[p].listedBefore /\ mgr[p].result = "ok"
    /\ mgr[p].arg.location.scheme = "file"
    /\ mgr[p].vyperFetched

\* the step is a call uninstall(bv)
UninstallCall(p) == mgr[p].pc = "idle" /\ mgr'[p].op = "uninstall"

FileAt(fs, path) == path \in DOMAIN fs /\ Present(fs, path)

\* C7: uninstall of a version whose file is absent raises nothing and changes
\* nothing in the cache (it logs a warning); so a second uninstall in sequence
\* leaves the cache as the first left it.
C7_UninstallAbsent ==
  [][\A p \in DOMAIN mgr :
       UninstallCall(p) =>
         /\ mgr'[p].pc = "done"
         /\ (~FileAt(files, UrlPath(mgr'[p].arg.location)) =>
               /\ files' = files
               /\ mgr'[p].result = "ok"
               /\ mgr'[p].warned)
         /\ ~FileAt(files', UrlPath(mgr'[p].arg.location))
         /\ ((mgr[p].last.op = "uninstall" /\ mgr[p].last.arg = mgr'[p].arg) =>
               files' = files /\ mgr'[p].result = "ok")]_vars

\* C7 witness: the second of two calls uninstall(v) in sequence has ended; the
\* first had removed the file
C7_Witness ==
  \E p \in DOMAIN mgr :
    /\ mgr[p].pc = "done" /\ mgr[p].op = "uninstall" /\ mgr[p].warned
    /\ mgr[p].last.op = "uninstall" /\ mgr[p].last.arg = mgr[p].arg
    /\ mgr[p].last.hadBefore

\* the mapping the platform identifier is to be
ExpectedPlatformId(system, machine) ==
  IF system = "Linux" /\ Lower(machine) \in AMD64 THEN "linux-amd64"
  ELSE IF system = "Darwin" /\ Lower(machine) \in AMD64 THEN "macosx-amd64"
  ELSE IF system = "Darwin" /\ Lower(machine) \in ARM64 THEN "macosx-arm64"
  ELSE "PlatformError"

\* C8: the platform identifier is linux-amd64 for Linux on x86, macosx-amd64 for
\* Darwin on x86, macosx-arm64 for Darwin on ARM, and the unsupported-platform
\* error for every other pair.
C8_AsStated ==
  \A p \in DOMAIN mgr :
    /\ mgr[p].platform # "unset" =>
         mgr[p].platform = ExpectedPlatformId(host.system, host.machine)
    /\ (mgr[p].pc = "done" /\ mgr[p].consulted /\ ~mgr[p].memo.set) =>
         (mgr[p].result = "PlatformError" <=>
            ExpectedPlatformId(host.system, host.machine) = "PlatformError")

\* C9 as stated: one manager sends the index request at most once.
C9_AsStated == \A p \in DOMAIN mgr : mgr[p].fetches <= 1

\* a query of remote_versions is answered in this step
Queried(p) == ~mgr[p].consulted /\ mgr'[p].consulted

\* C9 amended: once a request for the index has succeeded (its listing decoded),
\* no further request is sent and every later query returns that same set; a
\* request that failed stored nothing.
C9_MemoizedOnSuccess ==
  [][\A p \in DOMAIN mgr :
       /\ mgr[p].memo.set =>
            /\ mgr'[p].memo = mgr[p].memo
            /\ mgr'[p].fetches = mgr[p].fetches
            /\ (Queried(p) => /\ mgr'[p].seenRemote = Versions(mgr[p].memo.vals)
                              /\ mgr'[p].raisedAt # "remote"
                              /\ ~mgr'[p].sent)
       /\ (Queried(p) /\ ~mgr[p].memo.set /\ mgr'[p].raisedAt = "remote") =>
            ~mgr'[p].memo.set]_vars

\* C9 witness: a query was answered from the stored set, without a request
C9_Witness ==
  \E p \in DOMAIN mgr :
    /\ mgr[p].pc = "done" /\ mgr[p].op = "ls_remote"
    /\ mgr[p].consulted /\ mgr[p].memo.set /\ ~mgr[p].sent
    /\ mgr[p].fetches = 1

\* C10: compile starts the subprocess of the primary binary only with the
\* companion compiler installed; when it was not installed as compile started,
\* compile installed it before.
C10_CompanionFirst ==
  \A p \in DOMAIN mgr :
    /\ mgr[p].pc \in {"c_run", "c_remote", "c_reselect"} => vyperInstalled
    /\ (mgr[p].op = "compile" /\ mgr[p].pc = "c_run" /\ ~mgr[p].vyperBefore) =>
         mgr[p].vyperFetched
    /\ mgr[p].started =>
         (vyperInstalled /\ (~mgr[p].vyperBefore => mgr[p].vyperFetched))

\* C10 witness: the subprocess was started by a compile that began without the
\* companion compiler
C10_Witness ==
  \E p \in DOMAIN mgr :
    mgr[p].pc = "done" /\ mgr[p].started /\ ~mgr[p].vyperBefore

\* C11: a non-2xx answer makes the operation fail: for the index nothing is
\* parsed or stored and the request is sent once; for an artifact the body is
\* not written as the file of the version and install raises.
C11_AsStated ==
  \A p \in DOMAIN mgr :
    LET m == mgr[p]
    IN /\ (m.consulted /\ m.result = "HTTPError") =>
            /\ m.pc = "done" /\ ~m.memo.set /\ m.seenRemote = {}
       /\ m.status = "non2xx" =>
            /\ m.transfers = 1
            /\ m.pc # "i_verify"
            /\ (m.pc = "done" =>
                  /\ m.result # "ok"
                  /\ files[CacheName(m.arg.ver)].data # "full")

\* the constraint of the call matched no remote version and, in compile, no
\* local version either
NothingMatches(m) ==
  /\ m.op \in {"compile", "main_install"}
  /\ m.consulted /\ m.raisedAt # "remote"
  /\ IF m.op = "compile"
     THEN ~SomeMatch(m.seenLocal, config.zk_version)
          /\ ~SomeMatch(m.seenRemote, config.zk_version)
     ELSE ~SomeMatch(m.seenRemote, m.asked)

InstallStepOn(p, n) ==
  /\ mgr'[p].arg # NoBV
  /\ mgr'[p].op \in {"install", "main_install", "compile"}
  /\ CacheName(mgr'[p].arg.ver) = n

\* C13: an install that returned normally left the local set as the set before
\* the call with the version added, and no step of an install changes the file
\* of another version.
C13_AsStated ==
  /\ [](\A p \in DOMAIN mgr :
          (mgr[p].pc = "done" /\ mgr[p].op = "install" /\ mgr[p].result = "ok") =>
            /\ LocalVersions(files).ok
            /\ Versions(LocalVersions(files).vals)
                 = mgr[p].seenLocal \cup {mgr[p].arg.ver})
  /\ [][\A p \in DOMAIN mgr, n \in FileNames :
          (InstallStepOn(p, n) /\ DirExists(files)) =>
            \A o \in DOMAIN files \ {n} : files'[o] = files[o]]_vars

\* C14: a constructed manager has its cache directory; construction succeeds
\* when the directory is there already; reading the local versions does not
\* make the directory and fails when it is not there.
C14_AsStated ==
  /\ [](\A p \in DOMAIN mgr :
          /\ mgr[p].pc # "failed" => DirExists(files)
          /\ DirExists(files) => mgr[p].pc # "failed"
          /\ (mgr[p].pc = "done" /\ mgr[p].op = "ls" /\ ~DirExists(files)) =>
               mgr[p].result = "FileNotFoundError")
  /\ [][DirExists(files') = DirExists(files)]_vars

\* the version 1.4.2
V_1_4_2 ==
  [valid |-> TRUE, major |-> 1, minor |-> 4, patch |-> 2,
   prerelease |-> <<>>, build |-> <<>>]

\* the local versions were read with these regular files in the directory
ListedWith(p, names) ==
  /\ mgr[p].pc = "done" /\ mgr[p].op = "ls"
  /\ {n \in DOMAIN files : IsFile(files, n)} = names

\* C15 as stated: a regular file prefix-v1.4.2 is listed as version 1.4.2.
C15_AsStated ==
  \A p \in DOMAIN mgr :
    ListedWith(p, {PrefixTagged}) =>
      mgr[p].result = "ok" /\ mgr[p].seenLocal = {V_1_4_2}

\* C15 amended: the local decoding takes the last dash segment as it stands, no
\* tag letter stripped: prefix-1.4.2 is listed as 1.4.2, while prefix-v1.4.2
\* makes the listing raise ValueError; it is the decoding of the remote index
\* that strips the first character of the segment.
C15_LocalDecoding ==
  \A p \in DOMAIN mgr :
    /\ ListedWith(p, {PrefixPlain}) =>
         mgr[p].result = "ok" /\ mgr[p].seenLocal = {V_1_4_2}
    /\ (mgr[p].pc = "done" /\ mgr[p].op = "ls" /\ IsFile(files, PrefixTagged)) =>
         mgr[p].result = "ValueError"
    /\ Versions(ParseListing({[type |-> "file", name |-> PrefixTagged,
                               download_url |-> Https(PrefixTagged)]}).vals)
         = {V_1_4_2}

\* C15 witness: the listing was read with prefix-v1.4.2 the only regular file
C15_Witness ==
  \E p \in DOMAIN mgr :
    ListedWith(p, {PrefixTagged}) /\ mgr[p].result = "ValueError"

\* the version local_versions decodes from file name n
Decoded(n) == ParseVersion(LastDashSegment(n))

\* C16: the name install gives the artifact of a version decodes to that
\* version, pre-releases included, and every regular file of the cache
\* directory decodes to a version.
C16_AsStated ==
  /\ \A p \in DOMAIN mgr :
       (mgr[p].arg # NoBV /\ mgr[p].pc \in {"i_write", "i_verify"}) =>
         Decoded(CacheName(mgr[p].arg.ver)) = mgr[p].arg.ver
  /\ \A n \in DOMAIN files : IsFile(files, n) => Decoded(n).valid

\* C17: in every state, a version the listing of the cache directory holds has
\* its file written in full, and the file passes the verification.
C17_AsStated ==
  \A n \in DOMAIN files :
    (IsFile(files, n) /\ Decoded(n).valid) =>
      /\ files[n].data = "full"
      /\ Verdict(files[n], BinaryVersion(LastDashSegment(n), AsUri(n))) = "accept"

\* manager p holds the file named n open for writing
Writing(p, n) == mgr[p].fd # "none" /\ CacheName(mgr[p].arg.ver) = n

\* C18: two processes never hold the file of one version open for writing at
\* the same time, and the unlink of a failed install never removes a file
\* another process writes or has written.
C18_AsStated ==
  /\ [](\A p, q \in DOMAIN mgr, n \in FileNames :
          (Writing(p, n) /\ Writing(q, n)) => p = q)
  /\ [][\A p, q \in DOMAIN mgr, n \in FileNames :
          (/\ p # q
           /\ mgr[p].pc \in {"i_cleanup", "i_reject"} /\ mgr'[p].pc = "done"
           /\ CacheName(mgr[p].arg.ver) = n
           /\ mgr[q].pc \in {"i_write", "i_verify"} /\ CacheName(mgr[q].arg.ver) = n)
          => files'[n] = files[n]]_vars

\* C19: the compiler subprocess compile starts runs a regular file of the
\* cache directory whose version the constraint matches; after compile
\* installed the version it selected from the index, the selection among the
\* local versions gives that version, at the path install wrote.
C19_RunsSelected ==
  /\ [](\A p \in DOMAIN mgr :
          LET m == mgr[p]
              path == UrlPath(m.chosen.location)
          IN /\ m.started =>
                  /\ IsFile(files, path)
                  /\ Decoded(path) = m.chosen.ver
                  /\ Match(config.zk_version, m.chosen.ver)
             /\ (m.pc = "c_run" /\ m.arg # NoBV) =>
                  /\ m.chosen.ver = m.arg.ver
                  /\ m.chosen.location = AsUri(CacheName(m.arg.ver))
                  /\ m.transfers = 1
                  /\ IsFile(files, CacheName(m.arg.ver)))
  /\ [][\A p \in DOMAIN mgr :
          mgr[p].pc = "c_reselect" => mgr'[p].pc = "c_run"]_vars

\* C19 witness: compile started the binary it had just downloaded
C19_Witness ==
  \E p \in DOMAIN mgr :
    /\ mgr[p].started /\ mgr[p].transfers = 1
    /\ mgr[p].chosen.ver = mgr[p].arg.ver

\* C20: install(v, overwrite=true) of an installed v sends the GET for the
\* artifact, and when it then fails no file is left at the path of v.
C20_AsStated ==
  \A p \in DOMAIN mgr :
    LET m == mgr[p]
    IN (m.pc = "done" /\ m.op = "install" /\ m.ow /\ m.hadBefore /\ m.listedBefore) =>
         /\ m.transfers = 1
         /\ m.result # "ok" => ~Present(files, CacheName(m.arg.ver))

====
